---- MODULE Spec2Model ----
(***************************************************************************)
(* Table-of-contents plugin of zim (zim/plugins/tableofcontents.py).       *)
(*                                                                         *)
(* The text buffer of the displayed page is a sequence of lines; a line    *)
(* is a text (a sequence of characters) and a heading level, 0 for body    *)
(* text.  An iter is the index of a line, and 0 stands for None.  The row  *)
(* of the tree store is a path (a sequence of child indices, counted from  *)
(* 0 as Gtk does) and the heading text of TEXT_COL.                        *)
(***************************************************************************)
EXTENDS Integers, Sequences, FiniteSets, TLC

VARIABLES
    buffer,      \* the Gtk.TextBuffer of the page view: Seq([text, level])
    cursor,      \* the line of the insert mark of the buffer (0: buffer start)
    wraps,       \* whether the finder's find_next wraps around at the buffer end
    found,       \* the result of the last find_heading call made on its own
    show_h1,     \* ToCWidget.show_h1
    model,       \* the rows of the ToCTreeModel, in pre-order
    is_empty,    \* ToCTreeModel.is_empty
    edits,       \* edits the user has made to the buffer by hand
    ops,         \* promote and demote batches the user may still run
    last,        \* what the last handler of the widget did
    undo,        \* what the round trip of a promote has to restore
    page,        \* pageview.page: the page that is displayed
    hastree,     \* whether page.get_parsetree() of that page is a tree (not None)
    floating,    \* preferences['floating'] as the extension last saw it
    widgets,     \* the ToC widgets the extension has made; the last is self.tocwidget
    section      \* what the last select_section call selected in the buffer

pagevars == <<page, hastree>>

extvars == <<floating, widgets>>

vars == <<buffer, cursor, wraps, found, show_h1, model, is_empty, edits, ops, last, undo,
          page, hastree, floating, widgets, section>>

----------------------------------------------------------------------------
(* Bounds of the model *)

\* Lines of a freely drawn buffer.
MaxLines == 3
\* Lines of a drawn outline (a buffer of nested headings only).
DeepLines == 6
GateLines == 7
\* Rows selected in the tree view when a handler runs.
MaxSel == 2
\* Pages of the notebook, lines and heading levels of their texts.
MaxPages == 2
MaxPageLines == 2
PageLevel == 2
\* ToC widgets the extension makes.
MaxWidgets == 3
\* Edits the user makes to the buffer by hand.
MaxEdits == 1
\* Promote and demote batches the user runs on a freely drawn buffer.
MaxOps == 2
\* Promote and demote batches the user runs on a drawn outline.
OutlineOps == 1
\* Heading records of a drawn parse tree.
MaxRecs == 4
\* The deepest heading level of a freely drawn buffer.
FreeLevel == 3

(* Program constants *)

\* can_demote refuses paths of this depth and more; _format accepts levels below 7.
MaxLevel == 6

None == 0

Levels == 1..MaxLevel

\* Heading texts: a plain one, one that is a regex metacharacter, and one
\* that holds the plain one as a proper part.
Texts == { <<"a">>, <<".">>, <<"a", "a">> }

Line(t, l) == [text |-> t, level |-> l]

RECURSIVE SeqsUpTo(_, _)
\* All sequences over S of length at most n.
SeqsUpTo(S, n) ==
    IF n = 0 THEN { <<>> }
    ELSE LET shorter == SeqsUpTo(S, n - 1)
         IN  shorter \cup { Append(s, x) : s \in { t \in shorter : Len(t) = n - 1 }, x \in S }

Min(S) == CHOOSE x \in S : \A y \in S : x <= y

----------------------------------------------------------------------------
(* The search pattern and the finder *)

\* re.escape: every character that is not alphanumeric gets a backslash.
IsAlnum(c) == c # "."

\* A pattern built without re.escape.
re_escape_none(text) == text

RECURSIVE re_escape(_)
re_escape(text) ==
    IF text = <<>> THEN <<>>
    ELSE (IF IsAlnum(Head(text)) THEN <<Head(text)>> ELSE <<"\\", Head(text)>>)
         \o re_escape(Tail(text))

\* regex = "^%s$" % re.escape(heading)
HeadingRegex(heading) == <<"^">> \o re_escape(heading) \o <<"$">>

RECURSIVE MatchAt(_, _, _, _)
\* Whether regex, from its i-th character on, matches text from position j on.
\* The pattern language is the part of Python's re that the patterns use:
\* ^ and $ anchors, backslash-escaped literals, '.' for any character.
MatchAt(regex, i, text, j) ==
    IF i > Len(regex) THEN TRUE
    ELSE CASE regex[i] = "^"  -> j = 1 /\ MatchAt(regex, i + 1, text, j)
           [] regex[i] = "$"  -> j = Len(text) + 1 /\ MatchAt(regex, i + 1, text, j)
           [] regex[i] = "\\" -> /\ i < Len(regex)
                                 /\ j <= Len(text)
                                 /\ text[j] = regex[i + 1]
                                 /\ MatchAt(regex, i + 2, text, j + 1)
           [] regex[i] = "."  -> j <= Len(text) /\ MatchAt(regex, i + 1, text, j + 1)
           [] OTHER           -> /\ j <= Len(text)
                                 /\ text[j] = regex[i]
                                 /\ MatchAt(regex, i + 1, text, j + 1)

\* A search of the pattern within one line of the buffer.
LineMatches(regex, text) == \E j \in 1..(Len(text) + 1) : MatchAt(regex, 1, text, j)

MatchLines(buf, regex) == { i \in 1..Len(buf) : LineMatches(regex, buf[i].text) }

\* buffer.finder.find(regex, FIND_REGEX) inside buffer.tmp_cursor(): the first
\* match counted from the start of the buffer, None when there is none.
finder_find(buf, regex) ==
    LET M == MatchLines(buf, regex)
    IN  IF M = {} THEN None ELSE Min(M)

\* buffer.finder.find_next(): the next match after the current one; at the
\* end of the buffer it starts again from the top when the finder wraps.
finder_find_next(buf, regex, from, wrap) ==
    LET M     == MatchLines(buf, regex)
        later == { i \in M : i > from }
    IN  IF later # {} THEN Min(later)
        ELSE IF wrap /\ M # {} THEN Min(M)
        ELSE None

\* _is_heading(iter): the line at iter carries a heading tag.
_is_heading(buf, iter) == buf[iter].level > 0

Result(iter, tried, diverged) == [iter |-> iter, tried |-> tried, diverged |-> diverged]

RECURSIVE find_heading_loop_nostart(_, _, _, _, _, _)
\* The loop without the test that find_next is back at the first match.
find_heading_loop_nostart(buf, regex, wrap, start, iter, tried) ==
    IF Len(tried) > Len(buf) THEN Result(None, tried, TRUE)
    ELSE IF _is_heading(buf, iter) THEN Result(iter, tried, FALSE)
    ELSE LET next == finder_find_next(buf, regex, iter, wrap)
         IN  IF next = None THEN Result(None, tried, FALSE)
             ELSE find_heading_loop_nostart(buf, regex, wrap, start, next, Append(tried, next))

RECURSIVE find_heading_loop(_, _, _, _, _, _)
\* The while loop of find_heading.  tried lists the iters the loop condition
\* was evaluated on.  A loop that has tested more iters than the buffer has
\* lines is reported as diverged instead of being followed further.
find_heading_loop(buf, regex, wrap, start, iter, tried) ==
    IF Len(tried) > Len(buf) THEN Result(None, tried, TRUE)
    ELSE IF _is_heading(buf, iter) THEN Result(iter, tried, FALSE)
    ELSE LET next == finder_find_next(buf, regex, iter, wrap)
         IN  IF next = None THEN Result(None, tried, FALSE)
             ELSE IF next = start THEN Result(None, tried, FALSE)
             ELSE find_heading_loop(buf, regex, wrap, start, next, Append(tried, next))

find_heading(buf, heading, wrap) ==
    LET regex == HeadingRegex(heading)
        start == finder_find(buf, regex)
    IN  IF start = None THEN Result(None, <<>>, FALSE)
        ELSE find_heading_loop(buf, regex, wrap, start, start, <<start>>)

\* select_heading(buffer, heading): the new cursor, and whether it was found.
select_heading(buf, cur, heading, wrap) ==
    LET r == find_heading(buf, heading, wrap)
    IN  IF r.iter # None THEN [ok |-> TRUE, cursor |-> r.iter]
        ELSE [ok |-> FALSE, cursor |-> cur]

----------------------------------------------------------------------------
(* The tree model *)

IsPrefix(p, q) == Len(p) <= Len(q) /\ SubSeq(q, 1, Len(p)) = p

Front(s) == SubSeq(s, 1, Len(s) - 1)

Row(p, t, l) == [path |-> p, text |-> t, line |-> l]

\* The children of the row at path p (of the root for the empty path).
Children(rows, p) ==
    { i \in 1..Len(rows) : Len(rows[i].path) = Len(p) + 1 /\ IsPrefix(p, rows[i].path) }

\* An append that puts every row at the top level.
TreeAppend_flat(rows, parent, text, line) ==
    Append(rows, Row(<<Cardinality(Children(rows, <<>>))>>, text, line))

\* Gtk.TreeStore.append(parent, row): the new row is the last child of parent.
TreeAppend(rows, parent, text, line) ==
    Append(rows, Row(Append(parent, Cardinality(Children(rows, parent))), text, line))

\* parsetree.findall(HEADING) of the page shown in the buffer: the heading
\* lines in document order, as (level, text); line is the line the record
\* comes from.
parsetree_headings(buf) ==
    LET H == SelectSeq([i \in 1..Len(buf) |-> i], LAMBDA i : buf[i].level > 0)
    IN  [k \in 1..Len(H) |-> [level |-> buf[H[k]].level, text |-> buf[H[k]].text, line |-> H[k]]]

\* The condition without the look at the headings after the first.
drop_first_any(headings, show) ==
    ~show /\ headings # <<>> /\ headings[1].level = 1

\* The condition under which populate drops the first heading.
drop_first(headings, show) ==
    /\ ~show
    /\ headings # <<>>
    /\ headings[1].level = 1
    /\ \A i \in 2..Len(headings) : headings[i].level > 1

RECURSIVE stack_pop_deeper(_, _)
\* The loop popping only the strictly deeper headings.
stack_pop_deeper(stack, level) ==
    IF stack[Len(stack)].level > level THEN stack_pop_deeper(Front(stack), level) ELSE stack

RECURSIVE stack_pop(_, _)
\* while stack[-1][0] >= level: stack.pop()
stack_pop(stack, level) ==
    IF stack[Len(stack)].level >= level THEN stack_pop(Front(stack), level) ELSE stack

RECURSIVE populate_loop(_, _, _, _)
\* for level, text in headings: ...   (from the i-th heading on)
populate_loop(headings, i, stack, rows) ==
    IF i > Len(headings) THEN rows
    ELSE LET h      == headings[i]
             popped == stack_pop(stack, h.level)
             parent == popped[Len(popped)].path
             rows2  == TreeAppend(rows, parent, h.text, h.line)
         IN  populate_loop(headings, i + 1,
                           Append(popped, [level |-> h.level, path |-> rows2[Len(rows2)].path]),
                           rows2)

\* ToCTreeModel.populate(parsetree, show_h1): the rows and the is_empty flag.
populate(all, show) ==
    LET headings == IF drop_first(all, show) THEN Tail(all) ELSE all
    IN  [ rows     |-> populate_loop(headings, 1, << [level |-> -1, path |-> <<>>] >>, <<>>),
          is_empty |-> headings = <<>> ]

Paths(rows) == { rows[i].path : i \in 1..Len(rows) }

RowAt(rows, p) == rows[CHOOSE i \in 1..Len(rows) : rows[i].path = p]

\* treeview.get_selection().get_selected_rows(): the selected paths in tree order.
get_selected_rows(rows, sel) ==
    LET S == SelectSeq(rows, LAMBDA r : r.path \in sel)
    IN  [k \in 1..Len(S) |-> S[k].path]

RECURSIVE _walk(_, _)
RECURSIVE walk_children(_, _, _)
\* child = model.iter_children(iter); while child: ...; child = model.iter_next(child)
walk_children(rows, p, k) ==
    IF Append(p, k) \in Paths(rows)
    THEN _walk(rows, Append(p, k)) \o walk_children(rows, p, k + 1)
    ELSE <<>>

\* _walk(model, iter): iter and all its (grand)children.
_walk(rows, p) == <<p>> \o walk_children(rows, p, 0)

----------------------------------------------------------------------------
(* The widget: gating and the promote / demote batches *)

\* The gate asking for one path below the top level only.
can_promote_some(paths) == paths # <<>> /\ \E i \in 1..Len(paths) : Len(paths[i]) > 1

\* can_promote(paths): all headings have level larger than 1.
can_promote(paths) == paths # <<>> /\ \A i \in 1..Len(paths) : Len(paths[i]) > 1

\* The gate with the depth test off by one.
can_demote_deeper(paths) ==
    IF paths = <<>> \/ \E i \in 1..Len(paths) : Len(paths[i]) > MaxLevel
    THEN FALSE
    ELSE \A i \in 1..Len(paths) :
            ~ ( /\ paths[i][Len(paths[i])] = 0
                /\ ~ \E j \in 1..Len(paths) : paths[j] = Front(paths[i]) )

\* can_demote(paths): all headings below max level and all have a potential parent.
can_demote(paths) ==
    IF paths = <<>> \/ \E i \in 1..Len(paths) : Len(paths[i]) >= MaxLevel
    THEN FALSE
    ELSE \A i \in 1..Len(paths) :
            ~ ( /\ paths[i][Len(paths[i])] = 0
                /\ ~ \E j \in 1..Len(paths) : paths[j] = Front(paths[i]) )

\* on_promote: newlevel = len(p) - 1 with show_h1, len(p) without.
promote_level(p, show) == IF show THEN Len(p) - 1 ELSE Len(p)

\* on_demote: newlevel = len(p) + 1 with show_h1, len(p) + 2 without.
demote_level(p, show) == IF show THEN Len(p) + 1 ELSE Len(p) + 2

newlevel(op, p, show) ==
    IF op = "promote" THEN promote_level(p, show) ELSE demote_level(p, show)

\* pageview.toggle_format('h' + str(level)) on the selected heading line:
\* the line gets heading level `level`.
toggle_format(buf, iter, level) == [buf EXCEPT ![iter].level = level]

Call(p, level, line, iter) == [path |-> p, level |-> level, line |-> line, iter |-> iter]

\* _format raising an error for a heading that is not located.
_format_strict(st, rows, p, level, wrap) ==
    LET row == RowAt(rows, p)
        s   == select_heading(st.buf, st.cur, row.text, wrap)
    IN  IF level > 0 /\ level < MaxLevel + 1 /\ s.ok
        THEN [st EXCEPT !.buf   = toggle_format(@, s.cursor, level),
                        !.cur   = s.cursor,
                        !.calls = Append(@, Call(p, level, row.line, s.cursor))]
        ELSE [st EXCEPT !.raised = TRUE,
                        !.calls  = Append(@, Call(p, level, row.line, None))]

\* _format(path, level) in the state st of a running batch.  Every request is
\* recorded in st.calls, with the line it was applied to (None: not located).
_format(st, rows, p, level, wrap) ==
    LET row == RowAt(rows, p)
    IN  IF ~ (level > 0 /\ level < MaxLevel + 1)
        THEN [st EXCEPT !.raised = TRUE,
                        !.calls  = Append(@, Call(p, level, row.line, None))]
        ELSE LET s == select_heading(st.buf, st.cur, row.text, wrap)
             IN  IF s.ok
                 THEN [st EXCEPT !.buf   = toggle_format(@, s.cursor, level),
                                 !.cur   = s.cursor,
                                 !.calls = Append(@, Call(p, level, row.line, s.cursor))]
                 ELSE [st EXCEPT !.calls = Append(@, Call(p, level, row.line, None))]

RECURSIVE visit_all(_, _, _)
\* for path in paths: for i in self._walk(model, iter): ...  (the rows visited, in order)
visit_all(rows, paths, k) ==
    IF k > Len(paths) THEN <<>>
    ELSE _walk(rows, paths[k]) \o visit_all(rows, paths, k + 1)

RECURSIVE run_batch(_, _, _, _, _, _, _)
\* The body of the two loops from the k-th visited row on: rows already in
\* seen are skipped; a failed assertion of _format ends the batch.
run_batch(op, rows, visits, k, st, show, wrap) ==
    IF k > Len(visits) \/ st.raised THEN st
    ELSE LET p == visits[k]
         IN  IF p \in st.seen
             THEN run_batch(op, rows, visits, k + 1, st, show, wrap)
             ELSE run_batch(op, rows, visits, k + 1,
                            [_format(st, rows, p, newlevel(op, p, show), wrap)
                                EXCEPT !.seen = @ \cup {p}],
                            show, wrap)

Batch(op, rows, paths, buf, cur, show, wrap) ==
    run_batch(op, rows, visit_all(rows, paths, 1), 1,
              [buf |-> buf, cur |-> cur, calls |-> <<>>, raised |-> FALSE, seen |-> {}],
              show, wrap)

\* What a handler did: its name, its return value, whether it ended in an
\* exception, how many 'changed' signals it emitted, and of its batch the
\* number of _format requests, of requests with a level outside 1..6, of
\* requests whose heading was not located and of visited rows skipped as seen.
Did(op, ret, raised, changed, calls, visits) ==
    [op |-> op, ret |-> ret, raised |-> raised, changed |-> changed,
     ncalls  |-> Len(calls),
     bad     |-> Cardinality({ k \in 1..Len(calls) : calls[k].level \notin Levels }),
     missed  |-> Cardinality({ k \in 1..Len(calls) :
                               calls[k].iter = None /\ calls[k].level \in Levels }),
     skipped |-> Len(visits) - Len(calls)]

Plain(op, changed) == Did(op, FALSE, FALSE, changed, <<>>, <<>>)

SelectedLines(rows, sel) == { RowAt(rows, p).line : p \in sel }

Lines(rows, visits) == { RowAt(rows, visits[k]).line : k \in 1..Len(visits) }

\* The buffer before the last handler, the lines of the rows it was given and
\* the lines of their subtrees, kept when that handler was a promote that ran
\* to its end.
NoUndo == [pre |-> <<>>, sel |-> {}, sub |-> {}]

\* The tree model after load_page: populated from the parse tree of the
\* page, or only cleared (is_empty left as it was) when that is None.
loaded(buf, tree, show, was_empty) ==
    IF tree THEN populate(parsetree_headings(buf), show)
    ELSE [rows |-> <<>>, is_empty |-> was_empty]

\* load_page(page) for the page in the buffer: the tree is rebuilt and
\* 'changed' is emitted.
load_page(buf) ==
    LET t == loaded(buf, hastree', show_h1', is_empty)
    IN  /\ model' = t.rows
        /\ is_empty' = t.is_empty

\* The common shape of on_promote and on_demote, for the rows selected in the
\* tree view: return False when the gate refuses them, else run the batch,
\* reload the page and return True.
Restructure(op, selection, can) ==
    LET paths == get_selected_rows(model, selection)
    IN  IF ~ can
        THEN /\ last' = Did(op, FALSE, FALSE, 0, <<>>, <<>>)
             /\ undo' = NoUndo
             /\ UNCHANGED <<buffer, cursor, wraps, found, section, show_h1, model, is_empty, edits, ops,
                            pagevars, extvars>>
        ELSE LET st     == Batch(op, model, paths, buffer, cursor, show_h1, wraps)
                 visits == visit_all(model, paths, 1)
             IN  /\ ops > 0
                 /\ ops' = ops - 1
                 /\ buffer' = st.buf
                 /\ cursor' = st.cur
                 /\ UNCHANGED <<wraps, found, section, show_h1, edits, pagevars, extvars>>
                 /\ IF st.raised
                    THEN /\ last' = Did(op, FALSE, TRUE, 0, st.calls, visits)
                         /\ undo' = NoUndo
                         /\ UNCHANGED <<model, is_empty>>
                    ELSE /\ last' = Did(op, TRUE, FALSE, 1, st.calls, visits)
                         /\ undo' = IF op = "promote"
                                    THEN [pre |-> buffer, sel |-> SelectedLines(model, selection),
                                          sub |-> Lines(model, visits)]
                                    ELSE NoUndo
                         /\ load_page(st.buf)

\* The handler without the early return of its gate.
on_promote_nogate(selection) ==
    Restructure("promote", selection, TRUE)

on_promote(selection) ==
    Restructure("promote", selection, can_promote(get_selected_rows(model, selection)))

on_demote(selection) ==
    Restructure("demote", selection, can_demote(get_selected_rows(model, selection)))

\* on_store_page(notebook, page) without the look at the page.
on_store_page_any(p) ==
    /\ last' = Plain("store_page", 1)
    /\ undo' = NoUndo
    /\ UNCHANGED <<buffer, cursor, wraps, found, section, show_h1, edits, ops, pagevars, extvars>>
    /\ load_page(buffer)

\* on_store_page(notebook, page): the page p was stored.
on_store_page(p) ==
    /\ undo' = NoUndo
    /\ UNCHANGED <<buffer, cursor, wraps, found, section, show_h1, edits, ops, pagevars, extvars>>
    /\ IF p = page
       THEN /\ last' = Plain("store_page", 1)
            /\ load_page(buffer)
       ELSE /\ last' = Plain("store_page", 0)
            /\ UNCHANGED <<model, is_empty>>

\* on_page_changed(pageview, page): the page view now shows the page p, whose
\* text is buf and whose parse tree is a tree or None.
on_page_changed(p, buf, tree) ==
    /\ page' = p
    /\ buffer' = buf
    /\ hastree' = tree
    /\ cursor' = 0
    /\ last' = Plain("page_changed", 1)
    /\ undo' = NoUndo
    /\ UNCHANGED <<wraps, found, section, show_h1, edits, ops, extvars>>
    /\ load_page(buf)

\* set_show_h1(show_h1)
set_show_h1(show) ==
    /\ undo' = NoUndo
    /\ UNCHANGED <<pagevars, extvars>>
    /\ IF show # show_h1
       THEN /\ show_h1' = show
            /\ last' = Plain("set_show_h1", 1)
            /\ UNCHANGED <<buffer, cursor, wraps, found, section, edits, ops>>
            /\ load_page(buffer)
       ELSE /\ last' = Plain("set_show_h1", 0)
            /\ UNCHANGED <<buffer, cursor, wraps, found, section, show_h1, model, is_empty, edits, ops>>

\* A ToC widget as the extension knows it: its class, whether it is in the
\* window (side pane or text view) and whether its ToCWidget is connected to
\* 'page-changed' and 'store-page'.
Widget(class) == [class |-> class, attached |-> TRUE, connected |-> TRUE]

widgetclass(fl) == IF fl THEN "FloatingToC" ELSE "SidePaneToC"

\* self.tocwidget
tocwidget == widgets[Len(widgets)]

\* remove_sidepane_widget(widget): the widget leaves the side pane; whether
\* its handlers stay connected is not the extension's to say.
remove_sidepane_widget(w, keeps) == [w EXCEPT !.attached = FALSE, !.connected = keeps]

\* on_preferences_changed(preferences) with preferences['floating'] = fl and
\* preferences['show_h1'] = show: a widget of the other class replaces
\* self.tocwidget when the class changed (made with show_h1 False, loading
\* the page), and set_show_h1(show) is called on self.tocwidget.
on_preferences_changed(fl, show, keeps) ==
    LET old   == tocwidget
        same  == old.class = widgetclass(fl)
        gone  == IF old.class = "SidePaneToC" THEN remove_sidepane_widget(old, keeps) ELSE old
        made  == loaded(buffer, hastree, FALSE, TRUE)
        first == IF same THEN [rows |-> model, is_empty |-> is_empty] ELSE made
        was   == IF same THEN show_h1 ELSE FALSE
        final == IF show # was THEN loaded(buffer, hastree, show, first.is_empty) ELSE first
    IN  /\ same \/ Len(widgets) < MaxWidgets
        /\ floating' = fl
        /\ widgets' = IF same THEN widgets
                      ELSE Append([widgets EXCEPT ![Len(widgets)] = gone], Widget(widgetclass(fl)))
        /\ show_h1' = show
        /\ model' = final.rows
        /\ is_empty' = final.is_empty
        /\ last' = Plain("preferences", (IF same THEN 0 ELSE 1) + (IF show # was THEN 1 ELSE 0))
        /\ undo' = NoUndo
        /\ UNCHANGED <<buffer, cursor, wraps, found, section, edits, ops, pagevars>>

\* The user retitles a line of the buffer, or makes a heading body text; the
\* tree is not reloaded before the page is stored.
Edit(i, text, level) ==
    /\ edits < MaxEdits
    /\ \/ level = buffer[i].level /\ text # buffer[i].text
       \/ level = 0 /\ buffer[i].level > 0
    /\ buffer' = [buffer EXCEPT ![i] = Line(text, level)]
    /\ edits' = edits + 1
    /\ last' = Plain("edit", 0)
    /\ undo' = NoUndo
    /\ UNCHANGED <<cursor, wraps, found, section, show_h1, model, is_empty, ops, pagevars, extvars>>

\* buffer.get_end_iter(): the position after the last line.
get_end_iter(buf) == Len(buf) + 1

\* What a select_section call did: the row it was called for and the lines
\* of the headings of that row's subtree, the two ends it found, and whether
\* it called select_range.
Section(p, sub, start, end, selected) ==
    [path |-> p, sub |-> sub, start |-> start, end |-> end, selected |-> selected]

NoSection == Section(<<>>, {}, None, None, FALSE)

\* select_section(buffer, path): the text from the heading of the row to
\* the heading of its next sibling, or to the end of the buffer when the
\* row has no next sibling, is selected when both ends are found.
select_section(p) ==
    LET starttext == RowAt(model, p).text
        nextpath  == Append(Front(p), p[Len(p)] + 1)
        start     == find_heading(buffer, starttext, wraps).iter
        end       == IF nextpath \in Paths(model)
                     THEN find_heading(buffer, RowAt(model, nextpath).text, wraps).iter
                     ELSE get_end_iter(buffer)
    IN  /\ section' = Section(p, Lines(model, _walk(model, p)), start, end,
                                 start # None /\ end # None)
        /\ cursor' = IF start # None /\ end # None THEN start ELSE cursor
        /\ UNCHANGED <<buffer, wraps, found, show_h1, model, is_empty, edits, ops,
                       last, undo, pagevars, extvars>>

\* A call of find_heading(buffer, heading) on its own; tmp_cursor puts the
\* cursor back where it was.
find_heading_call(heading) ==
    /\ found' = [heading |-> heading, res |-> find_heading(buffer, heading, wraps)]
    /\ UNCHANGED <<buffer, cursor, wraps, show_h1, model, is_empty, edits, ops, last, undo,
                   pagevars, extvars, section>>

\* The user moves the cursor to line i (0: the start of the buffer).
MoveCursor(i) ==
    /\ i # cursor
    /\ cursor' = i
    /\ UNCHANGED <<buffer, wraps, found, section, show_h1, model, is_empty, edits, ops, last, undo,
                   pagevars, extvars>>

----------------------------------------------------------------------------
(* Buffers the specifications start from *)

\* Texts of the lines of the widget's buffers: two, so that headings can
\* share a text or differ in it.
WidgetTexts == { <<"a">>, <<".">> }

\* The titles the user retitles a line to.
EditTexts == { <<".">> }

\* Every buffer of at most MaxLines lines of body text and of headings of the
\* levels up to FreeLevel, gaps and disorder included.
FreeBuffers ==
    SeqsUpTo({ Line(t, l) : t \in WidgetTexts, l \in 0..FreeLevel }, MaxLines)

RECURSIVE OutlineLevels(_)
\* Level sequences of length n of a descending outline: the first heading
\* has level 1 and every other one the level of the heading before it, or
\* the next level below.
OutlineLevels(n) ==
    IF n = 1 THEN { <<1>> }
    ELSE UNION { { Append(s, l) : l \in s[Len(s)]..Min({s[Len(s)] + 1, MaxLevel}) } :
                 s \in OutlineLevels(n - 1) }

Letters == <<"a", "b", "c", "d", "e", "f", "g", "h">>

RECURSIVE Titled(_)
\* The buffer of headings of the given levels; the i-th has the i-th letter as its text.
Titled(levels) ==
    IF levels = <<>> THEN <<>>
    ELSE Append(Titled(Front(levels)), Line(<<Letters[Len(levels)]>>, levels[Len(levels)]))

\* Outlines of DeepLines headings, each with a text of its own: deep enough
\* for rows of depth MaxLevel.
OutlineBuffers == { Titled(s) : s \in OutlineLevels(DeepLines) }

\* Buffers of at most MaxRecs headings of any level, each with a text of its own.
RecordBuffers == { Titled(s) : s \in SeqsUpTo(Levels, MaxRecs) }

\* Buffers of at most MaxLines lines of any text, body text or headings of
\* the first and of the last level.
FindBuffers ==
    SeqsUpTo({ Line(t, l) : t \in Texts, l \in {0, 1, MaxLevel} }, MaxLines)

NoFind == [heading |-> <<>>, res |-> Result(None, <<>>, FALSE)]

\* The widget after its construction for the page in buf.
InitWidget(buf) ==
    /\ buffer = buf
    /\ cursor = 0
    /\ found = NoFind
    /\ show_h1 \in BOOLEAN
    /\ LET t == populate(parsetree_headings(buf), show_h1)
       IN  model = t.rows /\ is_empty = t.is_empty
    /\ edits = 0
    /\ last = Plain("init", 1)
    /\ undo = NoUndo
    /\ page = 1
    /\ hastree = TRUE
    /\ floating = TRUE
    /\ widgets = << Widget(widgetclass(TRUE)) >>
    /\ section = NoSection

----------------------------------------------------------------------------
(* The widget and its user *)

\* The rows the user may have selected in the tree view when a handler runs.
Selections == { sel \in SUBSET Paths(model) : Cardinality(sel) <= MaxSel }

Init ==
    /\ wraps = TRUE
    /\ ops = MaxOps
    /\ \E buf \in FreeBuffers : InitWidget(buf)

InitOutline ==
    /\ wraps = TRUE
    /\ ops = OutlineOps
    /\ \E buf \in OutlineBuffers : InitWidget(buf)

Next ==
    \/ \E sel \in Selections : on_promote(sel)
    \/ \E sel \in Selections : on_demote(sel)
    \/ on_store_page(page)
    \/ \E show \in BOOLEAN : set_show_h1(show)
    \/ \E i \in 1..Len(buffer), text \in EditTexts, level \in 0..MaxLevel : Edit(i, text, level)

Spec == Init /\ [][Next]_vars

SpecOutline == InitOutline /\ [][Next]_vars

----------------------------------------------------------------------------
(* The gates alone: promote and demote on outlines with rows of depth
   MaxLevel that are not first children *)

GateBuffers == { Titled(s) : s \in OutlineLevels(GateLines) }

InitGate ==
    /\ wraps = TRUE
    /\ ops = OutlineOps
    /\ \E buf \in GateBuffers : InitWidget(buf)

NextGate ==
    \/ \E sel \in Selections : on_promote(sel)
    \/ \E sel \in Selections : on_demote(sel)

SpecGate == InitGate /\ [][NextGate]_vars

----------------------------------------------------------------------------
(* The notebook and the preferences: page changes, stores of any page,
   edits, and changes of the plugin's preferences *)

PageIds == 1..MaxPages

\* Texts of at most MaxPageLines lines of body text and of headings of the
\* levels up to PageLevel, all with the same words.
PageBuffers ==
    SeqsUpTo({ Line(<<"a">>, l) : l \in 0..PageLevel }, MaxPageLines)

\* What a page shows: its text and whether it has a parse tree; a page
\* without one has no text.
PageContents ==
    { <<buf, TRUE>> : buf \in PageBuffers } \cup { << <<>>, FALSE >> }

\* The extension after its construction on a page view that shows a page.
InitPages ==
    /\ wraps = TRUE
    /\ ops = 0
    /\ page = 1
    /\ \E c \in PageContents : buffer = c[1] /\ hastree = c[2]
    /\ cursor = 0
    /\ found = NoFind
    /\ show_h1 \in BOOLEAN
    /\ LET t == loaded(buffer, hastree, show_h1, TRUE)
       IN  model = t.rows /\ is_empty = t.is_empty
    /\ edits = 0
    /\ last = Plain("init", 1)
    /\ undo = NoUndo
    /\ floating \in BOOLEAN
    /\ widgets = << Widget(widgetclass(floating)) >>
    /\ section = NoSection

NextPages ==
    \/ \E p \in PageIds, c \in PageContents : on_page_changed(p, c[1], c[2])
    \/ \E p \in PageIds : on_store_page(p)
    \/ \E show \in BOOLEAN : set_show_h1(show)
    \/ \E fl \in BOOLEAN, show \in BOOLEAN, keeps \in BOOLEAN : on_preferences_changed(fl, show, keeps)
    \/ \E i \in 1..Len(buffer), text \in EditTexts, level \in 0..MaxLevel : Edit(i, text, level)

SpecPages == InitPages /\ [][NextPages]_vars

----------------------------------------------------------------------------
(* Sections: select_section for the rows of a page of headings *)

InitSection ==
    /\ wraps = TRUE
    /\ ops = 0
    /\ \E buf \in RecordBuffers : InitWidget(buf)

NextSection ==
    \/ \E p \in Paths(model) : select_section(p)
    \/ \E show \in BOOLEAN : set_show_h1(show)

SpecSection == InitSection /\ [][NextSection]_vars

----------------------------------------------------------------------------
(* The extractor alone: reloads of a page of headings *)

InitExtract ==
    /\ wraps = TRUE
    /\ ops = 0
    /\ \E buf \in RecordBuffers : InitWidget(buf)

NextExtract ==
    \/ on_store_page(page)
    \/ \E show \in BOOLEAN : set_show_h1(show)

SpecExtract == InitExtract /\ [][NextExtract]_vars

----------------------------------------------------------------------------
(* The locator alone: find_heading for any text on any buffer *)

InitFind ==
    /\ wraps \in BOOLEAN
    /\ buffer \in FindBuffers
    /\ cursor \in 0..Len(buffer)
    /\ found = NoFind
    /\ show_h1 = FALSE
    /\ LET t == populate(parsetree_headings(buffer), show_h1)
       IN  model = t.rows /\ is_empty = t.is_empty
    /\ edits = 0
    /\ ops = 0
    /\ last = Plain("init", 1)
    /\ undo = NoUndo
    /\ page = 1
    /\ hastree = TRUE
    /\ floating = TRUE
    /\ widgets = << Widget(widgetclass(TRUE)) >>
    /\ section = NoSection

NextFind ==
    \/ \E heading \in Texts : find_heading_call(heading)
    \/ \E i \in 0..Len(buffer) : MoveCursor(i)

SpecFind == InitFind /\ [][NextFind]_vars

----------------------------------------------------------------------------
(* Properties of the extractor (SpecExtract) *)

Max(S) == CHOOSE x \in S : \A y \in S : x >= y

HeadingLines(buf) == { i \in 1..Len(buf) : buf[i].level > 0 }

LevelsOf(buf) == [i \in 1..Len(buf) |-> buf[i].level]

RowLevel(k) == buffer[model[k].line].level

\* The rows are records of the buffer, in input order, all of them or all
\* but the first; each row hangs under the nearest row before it of a
\* strictly smaller level, or under the root, as the last child so far.
NestedByLevel ==
    /\ \A k \in 1..Len(model) :
          /\ model[k].line \in HeadingLines(buffer)
          /\ model[k].text = buffer[model[k].line].text
    /\ \A k \in 1..(Len(model) - 1) : model[k].line < model[k + 1].line
    /\ LET lines == { model[k].line : k \in 1..Len(model) }
       IN  \/ lines = HeadingLines(buffer)
           \/ HeadingLines(buffer) # {} /\ lines = HeadingLines(buffer) \ {Min(HeadingLines(buffer))}
    /\ \A k \in 1..Len(model) :
          LET lower  == { j \in 1..(k - 1) : RowLevel(j) < RowLevel(k) }
              parent == IF lower = {} THEN <<>> ELSE model[Max(lower)].path
              path   == model[k].path
          IN  /\ path # <<>>
              /\ Front(path) = parent
              /\ path[Len(path)] =
                    Cardinality({ j \in 1..(k - 1) : /\ Len(model[j].path) = Len(path)
                                                     /\ Front(model[j].path) = parent })

\* C2 as stated: populate never fails and nests by level comparison alone (the
\* rows are the kept records in input order, each under the nearest record
\* before it of a strictly smaller level or under the root), and for
\* [(1,A),(3,B)] B is a child of A at depth 2.
C2_NestingAsStated ==
    /\ NestedByLevel
    /\ LevelsOf(buffer) = <<1, 3>> => Len(model) = 2 /\ model[2].path = <<0, 0>>

\* C2, amended: populate never fails and nests by level comparison alone (the
\* rows are the kept records in input order, each under the nearest kept
\* record before it of a strictly smaller level or under the root); for
\* [(1,A),(3,B)] B is a child of A at depth 2 when show_h1 is true, and the
\* only row, at depth 1, when it is false and A is dropped.
C2_Nesting ==
    /\ NestedByLevel
    /\ LevelsOf(buffer) = <<1, 3>> =>
          IF show_h1 THEN Len(model) = 2 /\ model[2].path = <<0, 0>>
          ELSE Len(model) = 1 /\ model[1].path = <<0>> /\ model[1].line = 2

\* A reload has built the tree of a page whose first heading is of level 3,
\* before any heading of level 1, the last one under a gap.
C2_Witness ==
    /\ last.op = "store_page"
    /\ LevelsOf(buffer) = <<3, 1, 4>>
    /\ Len(model) = 3
    /\ model[1].path = <<0>> /\ model[2].path = <<1>> /\ model[3].path = <<1, 0>>

\* C6: populate drops the first heading record exactly when show_h1 is false,
\* there is a record, the first has level 1 and every other one a level above
\* 1; in every other case every record is a row.  For [(1,Title),(2,A),(3,B)]
\* that gives two rows at depths 1 and 2 when false and three rows when true.
C6_DropFirst ==
    LET H       == HeadingLines(buffer)
        dropped == /\ ~show_h1
                   /\ H # {}
                   /\ buffer[Min(H)].level = 1
                   /\ \A i \in H \ {Min(H)} : buffer[i].level > 1
        lines   == { model[k].line : k \in 1..Len(model) }
    IN  /\ Len(model) = Cardinality(lines)
        /\ lines = IF dropped THEN H \ {Min(H)} ELSE H
        /\ LevelsOf(buffer) = <<1, 2, 3>> =>
              IF show_h1 THEN Len(model) = 3
              ELSE /\ Len(model) = 2
                   /\ Len(model[1].path) = 1 /\ model[1].line = 2
                   /\ Len(model[2].path) = 2 /\ model[2].line = 3

\* The title of [(1,Title),(2,A),(3,B)] has been dropped after show_h1 was
\* set to false.
C6_Witness ==
    /\ last.op = "set_show_h1" /\ last.changed = 1
    /\ ~show_h1
    /\ LevelsOf(buffer) = <<1, 2, 3>>
    /\ Len(model) = 2

----------------------------------------------------------------------------
(* Properties of the locator (SpecFind) *)

\* The heading lines whose whole text is the text asked for.
HeadingsTitled(buf, text) == { i \in HeadingLines(buf) : buf[i].text = text }

C5_Terminates ==
    found.heading # <<>> =>
        LET tried == found.res.tried
        IN  /\ ~ found.res.diverged
            /\ \A j, k \in 1..Len(tried) : j # k => tried[j] # tried[k]
            /\ \A j \in 1..Len(tried) : buffer[tried[j]].text = found.heading
            /\ HeadingsTitled(buffer, found.heading) = {} => found.res.iter = None

\* Every line matches and none is a heading: with a find_next that wraps
\* around, each has been tested once and None returned.
C5_Witness ==
    /\ wraps
    /\ Len(buffer) = 3
    /\ \A i \in 1..3 : buffer[i].text = found.heading /\ buffer[i].level = 0
    /\ Len(found.res.tried) = 3
    /\ found.res.iter = None

----------------------------------------------------------------------------
(* Properties of promote and demote (Spec, SpecOutline) *)

Handlers == { "promote", "demote" }

\* This step is on_promote / on_demote for the selection sel, past its gate.
Ran(op, sel) ==
    /\ last'.op = op
    /\ IF op = "promote"
       THEN on_promote(sel) /\ can_promote(get_selected_rows(model, sel))
       ELSE on_demote(sel) /\ can_demote(get_selected_rows(model, sel))

\* The batch that step runs, and the rows of the selected subtrees.
BatchOf(op, sel) ==
    Batch(op, model, get_selected_rows(model, sel), buffer, cursor, show_h1, wraps)

Subtrees(sel) ==
    LET visits == visit_all(model, get_selected_rows(model, sel), 1)
    IN  { visits[k] : k \in 1..Len(visits) }

\* The _format requests of a batch for the row p: all of them, and those
\* that got past the assertion.
Requests(st, p) == { k \in 1..Len(st.calls) : st.calls[k].path = p }

Shifts(st, p) == { k \in Requests(st, p) : st.calls[k].level \in Levels }

\* C1: for every selection that passes can_promote (can_demote), every level
\* that on_promote (on_demote) passes to _format, for the selected rows and
\* their descendants, lies in 1..6: the assertion of _format never fails.
C1_LevelsInRange ==
    [][ \A op \in Handlers : \A sel \in Selections :
          Ran(op, sel) =>
              LET st == BatchOf(op, sel)
              IN  /\ \A k \in 1..Len(st.calls) : st.calls[k].level \in Levels
                  /\ ~ st.raised ]_vars

\* C3: after a promote past its gate in which every heading is located, every
\* heading of the selected subtrees has in the buffer the level it had before
\* minus one; after such a demote, plus one; for both values of show_h1.
C3_ShiftByOne ==
    [][ \A op \in Handlers : \A sel \in Selections :
          LET st == BatchOf(op, sel)
          IN  ( /\ Ran(op, sel)
                /\ ~ st.raised
                /\ \A k \in 1..Len(st.calls) : st.calls[k].iter = st.calls[k].line )
              => \A p \in Subtrees(sel) :
                    LET l == RowAt(model, p).line
                    IN  buffer'[l].level =
                           buffer[l].level + (IF op = "promote" THEN -1 ELSE 1) ]_vars

\* C7: can_demote(paths) is true iff paths is not empty, no path has depth
\* >= 6 and every selected path whose last index is 0 has its parent path in
\* the selection; so it is false for [[0]] and true for [[1]].
C7_CanDemote ==
    /\ \A sel \in Selections :
          can_demote(get_selected_rows(model, sel))
             <=> /\ sel # {}
                 /\ \A p \in sel : Len(p) < 6
                 /\ \A p \in sel : p[Len(p)] = 0 => Front(p) \in sel
    /\ <<0>> \in Paths(model) => ~ can_demote(<< <<0>> >>)
    /\ <<1>> \in Paths(model) => can_demote(<< <<1>> >>)

\* A demote has passed the gate and left a tree with a row of depth 6 that
\* is not a first child: the gate refuses it for its depth alone.
C7_Witness ==
    /\ last.op = "demote" /\ last.ret
    /\ \E p \in Paths(model) : Len(p) = MaxLevel /\ p[Len(p)] # 0 /\ ~ can_demote(<<p>>)

\* C8: a promote of a row and then, after the reload and with nothing else
\* in between, a demote of the same row leave that heading and each of its
\* descendants at the level they had before the promote.
C8_RoundTrip ==
    [][ \A sel \in Selections :
          ( /\ Ran("demote", sel)
            /\ ~ BatchOf("demote", sel).raised
            /\ undo.sel # {}
            /\ SelectedLines(model, sel) = undo.sel )
          => \A l \in undo.sub : buffer'[l].level = undo.pre[l].level ]_vars

\* C9: in one promote or demote batch every row of the union of the selected
\* subtrees gets exactly one level change, also when a row and one of its
\* ancestors are both selected.
C9_ShiftedOnce ==
    [][ \A op \in Handlers : \A sel \in Selections :
          Ran(op, sel) =>
              \A p \in Subtrees(sel) : Cardinality(Shifts(BatchOf(op, sel), p)) = 1 ]_vars

\* The headings of the buffer with the text of the row p.
Locatable(p) == HeadingsTitled(buffer, RowAt(model, p).text) # {}

\* C10: when in a promote or demote batch the heading of a row cannot be
\* located, the line of that row is left as it is, no error is raised, every
\* other row of the batch is still processed and the tree is rebuilt.
C10_SkipAndGoOn ==
    [][ \A op \in Handlers : \A sel \in Selections :
          ( Ran(op, sel) /\ \E p \in Subtrees(sel) : ~ Locatable(p) )
          => LET st == BatchOf(op, sel)
             IN  /\ ~ st.raised
                 /\ \A p \in Subtrees(sel) :
                       /\ Cardinality(Requests(st, p)) = 1
                       /\ ~ Locatable(p) =>
                             buffer'[RowAt(model, p).line] = buffer[RowAt(model, p).line]
                 /\ model' = populate(parsetree_headings(buffer'), show_h1).rows
                 /\ last'.changed = 1 ]_vars

----------------------------------------------------------------------------
(* Refused selections and reported results (Spec) *)

\* The selections the gates are to refuse: none or a top-level row for a
\* promote; none, a row of depth 6, or a first child without its parent for
\* a demote.
Refused(op, sel) ==
    IF op = "promote"
    THEN sel = {} \/ \E p \in sel : Len(p) <= 1
    ELSE \/ sel = {}
         \/ \E p \in sel : Len(p) >= 6
         \/ \E p \in sel : p[Len(p)] = 0 /\ Front(p) \notin sel

\* This step is on_promote / on_demote for the selection sel.
Handled(op, sel) ==
    /\ last'.op = op
    /\ IF op = "promote" THEN on_promote(sel) ELSE on_demote(sel)

\* C11: on_promote (on_demote) with a selection that fails can_promote
\* (can_demote), the empty selection included, returns False without raising
\* and leaves the buffer, its cursor and the tree as they are: no _format
\* request, no reload, no 'changed' signal.
C11_RefusedIsNoOp ==
    [][ \A op \in Handlers : \A sel \in Selections :
          ( Refused(op, sel) /\ Handled(op, sel) )
          => /\ ~ last'.ret /\ ~ last'.raised
             /\ last'.ncalls = 0 /\ last'.changed = 0
             /\ UNCHANGED <<buffer, cursor, model, is_empty>> ]_vars

\* A promote has been refused on a tree of top-level rows only, where every
\* selection fails can_promote, and a demote is refused for its first row.
C11_Witness ==
    /\ last.op = "promote" /\ ~ last.ret /\ ~ last.raised
    /\ Len(model) >= 2
    /\ \A p \in Paths(model) : Len(p) = 1
    /\ ~ can_demote(<< <<0>> >>)


\* C12 as stated: the result of a promote or demote tells the batch in which
\* every heading was located from the batch with a failed locate (and both
\* from the refused selection): the first reports True, so the second does
\* not.
C12_ThreeOutcomes ==
    last.op \in Handlers =>
        /\ last.ncalls = 0 => ~ last.ret
        /\ (last.ncalls > 0 /\ last.bad = 0 /\ last.missed = 0) => last.ret
        /\ (last.ncalls > 0 /\ last.bad = 0 /\ last.missed > 0) => ~ last.ret

\* C12, amended: promote and demote report two results only: False for a
\* refused selection, and True for every batch that ran to its end, with a
\* failed locate (which is only logged, never raised) as without; a batch
\* ended by the assertion of _format reports nothing.
C12_TwoOutcomes ==
    last.op \in Handlers =>
        /\ last.ncalls = 0 => ~ last.ret /\ ~ last.raised
        /\ (last.ncalls > 0 /\ last.bad = 0) => last.ret /\ ~ last.raised
        /\ last.bad > 0 => ~ last.ret /\ last.raised

\* A demote with a heading that was not located has returned True.
C12_Witness ==
    /\ last.op = "demote"
    /\ last.ncalls > 1 /\ last.missed > 0
    /\ last.ret


----------------------------------------------------------------------------
(* Reloads and their signals (SpecOutline, SpecPages) *)

\* C13: every promote or demote that passes its gate ends with a reload of
\* the tree from the changed buffer; every reload (by a promote or demote, a
\* page change, a store of the displayed page or a change of show_h1) is
\* followed by one 'changed' signal; and the tree changes in no other way.
C13_ReloadAndSignal ==
    [][ /\ \A op \in Handlers : \A sel \in Selections :
              Ran(op, sel) =>
                  /\ last'.changed = 1
                  /\ model' = populate(parsetree_headings(buffer'), show_h1').rows
        /\ last'.op \in {"page_changed", "store_page", "set_show_h1"} /\ last'.changed > 0
              => /\ last'.changed = 1
                 /\ model' = loaded(buffer', hastree', show_h1', is_empty).rows
        /\ model' # model => last'.changed >= 1 ]_vars


----------------------------------------------------------------------------
(* Depth and level of the rows (SpecExtract) *)

\* The first heading of the page is not in the tree.
TitleDropped == hastree /\ Len(model) < Cardinality(HeadingLines(buffer))

\* The level a top-level row has in a page of contiguous levels.
TopLevel == IF TitleDropped THEN 2 ELSE 1

\* The levels of the rows are contiguous: the first row has the top level
\* and no row lies more than one level below the row before it.
Contiguous ==
    /\ model # <<>> => RowLevel(1) = TopLevel
    /\ \A k \in 2..Len(model) : RowLevel(k) <= RowLevel(k - 1) + 1

\* C14 as stated: the depth of every row of a tree built by populate is the
\* level of its heading when the title was not dropped, and the level minus
\* one when it was.
C14_DepthIsLevel ==
    \A k \in 1..Len(model) : Len(model[k].path) = RowLevel(k) - (TopLevel - 1)

\* C14, amended: the depth of every row of a tree built by populate is at
\* most the level of its heading when the title was not dropped, and at most
\* the level minus one when it was; it is equal for every row exactly when
\* the levels of the rows are contiguous.
C14_DepthAtMostLevel ==
    /\ \A k \in 1..Len(model) : Len(model[k].path) <= RowLevel(k) - (TopLevel - 1)
    /\ C14_DepthIsLevel <=> Contiguous

\* A reload has built the tree of [(1,A),(3,B)] with show_h1: B has level 3
\* and depth 2.
C14_Witness ==
    /\ last.op = "store_page"
    /\ show_h1
    /\ LevelsOf(buffer) = <<1, 3>>
    /\ Len(model) = 2 /\ Len(model[2].path) = 2


----------------------------------------------------------------------------
(* The promote gate (SpecGate) *)

\* C15: can_promote(paths) is true iff paths is not empty and every path has
\* depth > 1; it is false for every selection with a path of depth 1.
C15_CanPromote ==
    \A sel \in Selections :
        LET paths == get_selected_rows(model, sel)
        IN  /\ can_promote(paths) <=> (sel # {} /\ \A p \in sel : Len(p) > 1)
            /\ (\E p \in sel : Len(p) = 1) => ~ can_promote(paths)

\* A promote has passed the gate and left a tree in which a row below the
\* top level passes the gate alone and fails it together with a top-level row.
C15_Witness ==
    /\ last.op = "promote" /\ last.ret
    /\ \E p, q \in Paths(model) :
          /\ Len(p) = 1 /\ Len(q) > 1
          /\ can_promote(<<q>>)
          /\ ~ can_promote(<<p, q>>)


----------------------------------------------------------------------------
(* The end of a selected section (SpecSection) *)

\* The headings after the start of the selected section that are not in the
\* subtree of its row.
LaterHeadings ==
    { i \in HeadingLines(buffer) : i > section.start /\ i \notin section.sub }

\* C16: select_section(path) selects up to the end of the buffer only when
\* no heading outside the subtree of the row follows the start heading; when
\* one follows, the selection ends at a heading line and not at the end of
\* the buffer.
C16_SectionEnd ==
    section.selected =>
        /\ section.end = get_end_iter(buffer) => LaterHeadings = {}
        /\ LaterHeadings # {} => section.end \in HeadingLines(buffer)

----------------------------------------------------------------------------
(* The is_empty flag of the tree model (SpecPages) *)

\* C17: after any page loads, stores and show_h1 changes, loads of a page
\* whose parse tree is None included, is_empty is true exactly when the tree
\* model holds no rows.
C17_EmptyFlag ==
    is_empty <=> model = <<>>

----------------------------------------------------------------------------
(* Which events reload the tree (SpecPages) *)

\* The rows that load_page makes of the page that is displayed.
RowsOfPage(buf, tree, show) ==
    IF tree THEN populate(parsetree_headings(buf), show).rows ELSE <<>>

\* The tree does not show the text of the displayed page: the text was
\* edited after the last load.
Stale == model # RowsOfPage(buffer, hastree, show_h1)

\* C18: on_store_page for a page other than the displayed one leaves the tree
\* model as it is and emits no 'changed'; on_store_page for the displayed
\* page and every on_page_changed rebuild the tree from the page then
\* displayed and emit 'changed' once.
C18_StoreOfDisplayedPage ==
    [][ /\ \A p \in PageIds :
              on_store_page(p) =>
                  IF p # page
                  THEN /\ UNCHANGED <<model, is_empty>>
                       /\ last'.changed = 0
                  ELSE /\ model' = RowsOfPage(buffer, hastree, show_h1)
                       /\ last'.changed = 1
        /\ last'.op = "page_changed" =>
              /\ model' = RowsOfPage(buffer', hastree', show_h1)
              /\ last'.changed = 1 ]_vars

\* The store of another page has left a stale tree as it was.
C18_Witness ==
    /\ last.op = "store_page"
    /\ last.changed = 0
    /\ Stale

----------------------------------------------------------------------------
(* The widgets the extension has made (SpecPages) *)

\* A widget is live when it is in the window and its ToCWidget is connected
\* to 'page-changed' and 'store-page'.
Live(w) == w.attached /\ w.connected

\* C19: after any changes of the 'floating' preference exactly one widget is
\* live, the one of the class that the preference selects; every widget that
\* was self.tocwidget before a switch is out of the window and disconnected.
C19_OneLiveWidget ==
    /\ tocwidget.class = widgetclass(floating)
    /\ Live(tocwidget)
    /\ \A i \in 1..(Len(widgets) - 1) :
          ~ widgets[i].attached /\ ~ widgets[i].connected

====
